---- MODULE Spec2Model ----
(***************************************************************************)
(* Othello on a padded 10x10 board (start_othello.py): the board model,    *)
(* bracket detection, legality, move application, the scoring functions,   *)
(* the negamax strategies and the game loop `play`.                         *)
(*                                                                         *)
(* Python values are modelled as follows.  A piece and a player are        *)
(* strings ('.', '@', 'o', '?'); Python's None in a player or a cell is    *)
(* the string "None".  An optional square (the result of find_bracket) is  *)
(* a set of integers with at most one element: {} is None, {e} is e.       *)
(* A board is a function on 0..99; list indexing follows Python: indices   *)
(* -100..-1 alias 0..99 and anything else raises IndexError.               *)
(***************************************************************************)
EXTENDS Integers, Sequences, FiniteSets, TLC

VARIABLES
    board,           \* play: the live board
    player,          \* play: the player to move (BLACK, WHITE or None)
    black_strategy,  \* play: first argument
    white_strategy,  \* play: second argument
    strategy,        \* play: the local variable `strategy`
    pc,              \* play: "loop" (at the while test), "done", "raised"
    raised,          \* the exception that ended play: {} or {[kind, player, move, board]}
    final,           \* {} or {[white, black]}: the counts printed after the loop
    asked,           \* history: the (player, strategy) pairs get_move has invoked
    moves,           \* history: number of committed moves
    lastMove,        \* history: {} or {the last committed move}
    lastPlayer,      \* history: the player who committed it
    prevBoard,       \* history: the board it was committed on
    depth,           \* search harness: the depth budget passed to a strategy
    budget,          \* search harness: time checks that still see the budget unspent
    resH,            \* search harness: {} or {result of negamax_heuristics}
    resP,            \* search harness: {} or {result of negamax_pruning}
    obsH,            \* search harness: {} or {[seen, evals, late] of that call of negamax_heuristics}
    obsP,            \* search harness: {} or {[seen, evals, late] of that call of negamax_pruning}
    resR,            \* search harness: {} or {result of random_move}
    resN             \* search harness: {} or {[raised, ret]: how the call of negamax ended}

vars == <<board, player, black_strategy, white_strategy, strategy, pc, raised,
          final, asked, moves, lastMove, lastPlayer, prevBoard,
          depth, budget, resH, resP, obsH, obsP, resR, resN>>

playVars == <<black_strategy, white_strategy, strategy, pc, raised, final, asked>>
histVars == <<moves, lastMove, lastPlayer, prevBoard>>
searchVars == <<depth, budget, resH, resP, obsH, obsP, resR, resN>>

----------------------------------------------------------------------------
(* Constants of the program *)

EMPTY == "."
BLACK == "@"
WHITE == "o"
OUTER == "?"
None == "None"
IndexError == "IndexError"

PIECES == <<EMPTY, BLACK, WHITE, OUTER>>

UP == -10
DOWN == 10
LEFT == -1
RIGHT == 1
UP_RIGHT == -9
DOWN_RIGHT == 11
DOWN_LEFT == 9
UP_LEFT == -11

DIRECTIONS == <<UP, UP_RIGHT, RIGHT, DOWN_RIGHT, DOWN, DOWN_LEFT, LEFT, UP_LEFT>>

DEPTH == 4

SQUARE_WEIGHTS ==
    << 0,   0,   0,  0,  0,  0,  0,   0,   0, 0,
       0, 120, -20, 20,  5,  5, 20, -20, 120, 0,
       0, -20, -40, -5, -5, -5, -5, -40, -20, 0,
       0,  20,  -5, 15,  3,  3, 15,  -5,  20, 0,
       0,   5,  -5,  3,  3,  3,  3,  -5,   5, 0,
       0,   5,  -5,  3,  3,  3,  3,  -5,   5, 0,
       0,  20,  -5, 15,  3,  3, 15,  -5,  20, 0,
       0, -20, -40, -5, -5, -5, -5, -40, -20, 0,
       0, 120, -20, 20,  5,  5, 20, -20, 120, 0,
       0,   0,   0,  0,  0,  0,  0,   0,   0, 0 >>

\* SQUARE_WEIGHTS[sq] of the source (0-based list)
Weight(sq) == SQUARE_WEIGHTS[sq + 1]

----------------------------------------------------------------------------
(* Board model *)

\* range(11, 89) filtered on the column digit, in order
squares == SelectSeq([k \in 1..78 |-> k + 10], LAMBDA i : 1 <= (i % 10) /\ (i % 10) <= 8)

SquareSet == {squares[k] : k \in 1..Len(squares)}

\* initial_board with the two colours exchanged
initial_board_swapped ==
    [i \in 0..99 |->
        IF i \in {44, 55} THEN BLACK
        ELSE IF i \in {45, 54} THEN WHITE
        ELSE IF i \in SquareSet THEN EMPTY
        ELSE OUTER]

initial_board ==
    [i \in 0..99 |->
        IF i \in {44, 55} THEN WHITE
        ELSE IF i \in {45, 54} THEN BLACK
        ELSE IF i \in SquareSet THEN EMPTY
        ELSE OUTER]

\* board[i] as Python evaluates it on a list of 100 elements
Index(b, i) ==
    IF i >= 0 /\ i <= 99 THEN b[i]
    ELSE IF i >= -100 /\ i <= -1 THEN b[i + 100]
    ELSE IndexError

\* board[i] = v as Python performs it (i is in -100..99 wherever the code assigns)
SetIndex(b, i, v) ==
    IF i >= 0 THEN [b EXCEPT ![i] = v] ELSE [b EXCEPT ![i + 100] = v]

\* truth value of an optional square: None and 0 are falsy
Truthy(r) == r # {} /\ r # {0}

is_valid(move) == move \in SquareSet

opponent(p) == IF p = WHITE THEN BLACK ELSE WHITE

----------------------------------------------------------------------------
(* Move legality *)

\* the while loop of find_bracket: the index at which the scan stops
RECURSIVE ScanRun(_, _, _, _)
ScanRun(b, opp, bracket, direction) ==
    IF Index(b, bracket) = opp
    THEN ScanRun(b, opp, bracket + direction, direction)
    ELSE bracket

\* the index find_bracket holds when it reaches its last line (or raises)
ScanEnd(square, p, b, direction) ==
    LET bracket == square + direction IN
    IF Index(b, bracket) = p \/ Index(b, bracket) = IndexError
    THEN bracket
    ELSE ScanRun(b, opponent(p), bracket, direction)

Abs(x) == IF x < 0 THEN -x ELSE x

\* the indices find_bracket subscripts the board with: square + direction, then
\* one step at a time up to the index at which the scan stops
ScanReads(square, p, b, direction) ==
    LET e == ScanEnd(square, p, b, direction) IN
    {x \in {square + k * direction : k \in 1..Abs(e - square)} :
        (e - x) * direction >= 0}

\* find_bracket raises IndexError
find_bracket_raises(square, p, b, direction) ==
    Index(b, ScanEnd(square, p, b, direction)) = IndexError

\* find_bracket with the EMPTY test dropped from its last line
find_bracket_skip_empty(square, p, b, direction) ==
    LET bracket == square + direction IN
    IF Index(b, bracket) = p THEN {}
    ELSE LET e == ScanRun(b, opponent(p), bracket, direction) IN
         IF Index(b, e) = OUTER THEN {} ELSE {e}

\* find_bracket's result when it does not raise: {} for None, {e} for square e
find_bracket(square, p, b, direction) ==
    LET bracket == square + direction IN
    IF Index(b, bracket) = p THEN {}
    ELSE LET e == ScanRun(b, opponent(p), bracket, direction) IN
         IF Index(b, e) \in {OUTER, EMPTY} THEN {} ELSE {e}

\* is_legal raises IndexError: at board[move], or in the first direction that
\* any() reaches before a truthy bracket
is_legal_raises(move, p, b) ==
    \/ Index(b, move) = IndexError
    \/ /\ Index(b, move) = EMPTY
       /\ \E i \in 1..Len(DIRECTIONS) :
            /\ find_bracket_raises(move, p, b, DIRECTIONS[i])
            /\ \A j \in 1..(i - 1) :
                 /\ ~find_bracket_raises(move, p, b, DIRECTIONS[j])
                 /\ ~Truthy(find_bracket(move, p, b, DIRECTIONS[j]))

\* is_legal's result when it does not raise
is_legal(move, p, b) ==
    /\ Index(b, move) = EMPTY
    /\ \E i \in 1..Len(DIRECTIONS) : Truthy(find_bracket(move, p, b, DIRECTIONS[i]))

legal_moves(p, b) == SelectSeq(squares, LAMBDA sq : is_legal(sq, p, b))

any_legal_move(p, b) == \E k \in 1..Len(squares) : is_legal(squares[k], p, b)

----------------------------------------------------------------------------
(* Move application *)

\* the while loop of make_flips
RECURSIVE FlipRun(_, _, _, _, _)
FlipRun(b, p, square, bracket, direction) ==
    IF square # bracket
    THEN FlipRun(SetIndex(b, square, p), p, square + direction, bracket, direction)
    ELSE b

\* make_flips stopping one cell short of the bracket
make_flips_short(move, p, b, direction) ==
    LET bracket == find_bracket(move, p, b, direction) IN
    IF ~Truthy(bracket) THEN b
    ELSE LET e == CHOOSE x \in bracket : TRUE IN
         FlipRun(b, p, move + direction, e - direction, direction)

make_flips(move, p, b, direction) ==
    LET bracket == find_bracket(move, p, b, direction) IN
    IF ~Truthy(bracket) THEN b
    ELSE LET e == CHOOSE x \in bracket : TRUE IN
         FlipRun(b, p, move + direction, e, direction)

\* the for loop of make_move, from the i-th direction on
RECURSIVE FlipDirections(_, _, _, _)
FlipDirections(move, p, b, i) ==
    IF i > Len(DIRECTIONS) THEN b
    ELSE FlipDirections(move, p, make_flips(move, p, b, DIRECTIONS[i]), i + 1)

\* make_move flipping the bracketed pieces without placing the piece on `move`
make_move_unplaced(move, p, b) == FlipDirections(move, p, b, 1)

make_move(move, p, b) == FlipDirections(move, p, SetIndex(b, move, p), 1)

----------------------------------------------------------------------------
(* Scoring *)

\* board.count(piece)
Count(b, piece) == Cardinality({i \in 0..99 : b[i] = piece})

RECURSIVE ScoreFrom(_, _, _)
ScoreFrom(p, b, k) ==
    IF k > Len(squares) THEN 0
    ELSE LET position == b[squares[k]] IN
         (IF position = p THEN 1 ELSE IF position = opponent(p) THEN -1 ELSE 0)
         + ScoreFrom(p, b, k + 1)

score(p, b) == ScoreFrom(p, b, 1)

RECURSIVE HeuristicFrom(_, _, _)
HeuristicFrom(p, b, k) ==
    IF k > Len(squares) THEN 0
    ELSE LET sq == squares[k] IN
         (IF b[sq] = p THEN Weight(sq) ELSE 0)
         - (IF b[sq] = opponent(p) THEN Weight(sq) ELSE 0)
         + HeuristicFrom(p, b, k + 1)

heuristic_score(p, b) == HeuristicFrom(p, b, 1)

----------------------------------------------------------------------------
(* Search strategies *)

\* math.inf: larger than every score and every square
inf == 1000000

\* The wall clock, as the searches observe it.  time.time() only grows, so
\* `current_time - start_time >= 2` is false for some number of checks and true
\* from then on.  A clock is {} (the budget is never exceeded) or {n}: the next
\* n checks see the budget unspent and every later one sees it exceeded.
TimeUp(clock) == clock = {0}

Tick(clock) == IF clock = {} \/ clock = {0} THEN clock ELSE {n - 1 : n \in clock}

\* the caller's list if it were itself the list passed on to make_move and the callee
CallerBoardShared(own, passed) == passed

\* board[:] at lines 315 and 343 is a new list: the caller's list `own` keeps its
\* cells whatever make_move and the callee did to the list that was passed on
CallerBoard(own, passed) == own

\* A search returns a record:
\*   ret    the value returned
\*   clock  the clock afterwards
\*   board  the cells, on return, of the list the call received as `board`
\*   seen   a time check of this call, or of a call below it, found the budget exceeded
\*   evals  the recursive calls this call made itself
\*   late   those of them it made after `seen` had become true
\*   kept   no call, this one or one below it, found the cells of its list changed
\*          when a call it made returned
\* The loops carry all but ret in the record st.
Returned(v, st) ==
    [ret |-> v, clock |-> st.clock, board |-> st.board,
     seen |-> st.seen, evals |-> st.evals, late |-> st.late, kept |-> st.kept]

Entered(b, clock, up) ==
    [clock |-> clock, board |-> b, seen |-> up, evals |-> 0, late |-> 0, kept |-> TRUE]

\* the loop state after the recursive call of one iteration returned r
AfterChild(st, r) ==
    [clock |-> r.clock,
     board |-> CallerBoard(st.board, r.board),
     seen  |-> st.seen \/ r.seen,
     evals |-> st.evals + 1,
     late  |-> st.late + (IF st.seen THEN 1 ELSE 0),
     kept  |-> st.kept /\ r.kept /\ CallerBoard(st.board, r.board) = st.board]

RECURSIVE negamax_heuristics(_, _, _, _)
RECURSIVE HeuristicsLoop(_, _, _, _, _, _, _, _)
RECURSIVE HeuristicsLoop_checks_between(_, _, _, _, _, _, _, _)

\* the for loop reading the clock before every iteration and returning the best
\* move so far once the budget is exceeded
HeuristicsLoop_checks_between(p, b, d, possible_moves, i, current_best, best_move, st) ==
    IF i > Len(possible_moves) \/ TimeUp(st.clock) THEN Returned(best_move, st)
    ELSE LET move == possible_moves[i]
             new_board == make_move(move, p, st.board)
             r == negamax_heuristics(opponent(p), new_board, d - 1, Tick(st.clock))
             move_score == -r.ret
             st2 == AfterChild(st, r)
         IN IF move_score > current_best
            THEN HeuristicsLoop_checks_between(p, b, d, possible_moves, i + 1, move_score, move, st2)
            ELSE HeuristicsLoop_checks_between(p, b, d, possible_moves, i + 1, current_best, best_move, st2)

\* the for loop of negamax_heuristics, from the i-th legal move on
HeuristicsLoop(p, b, d, possible_moves, i, current_best, best_move, st) ==
    IF i > Len(possible_moves) THEN Returned(best_move, st)
    ELSE LET move == possible_moves[i]
             new_board == make_move(move, p, st.board)
             r == negamax_heuristics(opponent(p), new_board, d - 1, st.clock)
             move_score == -r.ret
             st2 == AfterChild(st, r)
         IN IF move_score > current_best
            THEN HeuristicsLoop(p, b, d, possible_moves, i + 1, move_score, move, st2)
            ELSE HeuristicsLoop(p, b, d, possible_moves, i + 1, current_best, best_move, st2)

\* negamax_heuristics answering a spent budget with an evaluation
negamax_heuristics_score_on_timeout(p, b, d, clock) ==
    LET possible_moves == legal_moves(p, b) IN
    IF d < 1 \/ Len(possible_moves) <= 0 \/ TimeUp(clock)
    THEN Returned(heuristic_score(p, b), Entered(b, clock, TimeUp(clock)))
    ELSE HeuristicsLoop(p, b, d, possible_moves, 1, -inf, possible_moves[1],
                        Entered(b, Tick(clock), FALSE))

negamax_heuristics(p, b, d, clock) ==
    LET possible_moves == legal_moves(p, b) IN
    IF d < 1 \/ Len(possible_moves) <= 0
    THEN Returned(heuristic_score(p, b), Entered(b, clock, FALSE))
    ELSE IF TimeUp(clock)
    THEN Returned(possible_moves[1], Entered(b, clock, TRUE))
    ELSE HeuristicsLoop(p, b, d, possible_moves, 1, -inf, possible_moves[1],
                        Entered(b, Tick(clock), FALSE))

Max(x, y) == IF x >= y THEN x ELSE y

RECURSIVE negamax_pruning(_, _, _, _, _, _)
RECURSIVE PruningLoop(_, _, _, _, _, _, _, _, _, _)

\* the for loop of negamax_pruning, from the i-th legal move on
PruningLoop(p, b, d, possible_moves, i, current_best, best_move, st, alfa, beta) ==
    IF i > Len(possible_moves) THEN Returned(best_move, st)
    ELSE LET move == possible_moves[i]
             new_board == make_move(move, p, st.board)
             r == negamax_pruning(opponent(p), new_board, d - 1, st.clock, -beta, -alfa)
             move_score == -r.ret
             better == move_score > current_best
             best == IF better THEN move_score ELSE current_best
             bmove == IF better THEN move ELSE best_move
             alfa2 == Max(alfa, best)
             st2 == AfterChild(st, r)
         IN IF alfa2 >= beta
            THEN Returned(bmove, st2)
            ELSE PruningLoop(p, b, d, possible_moves, i + 1, best, bmove, st2, alfa2, beta)

negamax_pruning(p, b, d, clock, alfa, beta) ==
    LET possible_moves == legal_moves(p, b) IN
    IF d < 1 \/ Len(possible_moves) <= 0
    THEN Returned(heuristic_score(p, b), Entered(b, clock, FALSE))
    ELSE IF TimeUp(clock)
    THEN Returned(possible_moves[1], Entered(b, clock, TRUE))
    ELSE PruningLoop(p, b, d, possible_moves, 1, -inf, possible_moves[1],
                     Entered(b, Tick(clock), FALSE), alfa, beta)

\* random.choice(legal_moves(player, board)): the values a call can return
random_move(p, b) ==
    LET possible_moves == legal_moves(p, b) IN
    {possible_moves[i] : i \in 1..Len(possible_moves)}

TypeError == "TypeError"

\* how a call of negamax ended: with an exception raised or with a value returned
Raises(e) == [raised |-> e, ret |-> {}]
Value(v) == [raised |-> None, ret |-> {v}]

\* def negamax(player, board, depth, time): four required positional parameters
NegamaxParams == 4

\* negamax is applied to the tuple of arguments of the call, so that a call
\* which does not bind every parameter raises TypeError as Python does
RECURSIVE negamax(_)
RECURSIVE NegamaxLoop(_, _, _, _, _, _, _)
NegamaxLoop(p, b, d, possible_moves, i, current_best, best_move) ==
    IF i > Len(possible_moves) THEN Value(best_move)
    ELSE LET move == possible_moves[i]
             new_board == make_move(move, p, b)
             r == negamax(<<p, new_board, d - 1>>)
         IN  IF r.raised # None THEN r
             ELSE LET move_score == -(CHOOSE v \in r.ret : TRUE) IN
                  IF move_score > current_best
                  THEN NegamaxLoop(p, b, d, possible_moves, i + 1, move_score, move)
                  ELSE NegamaxLoop(p, b, d, possible_moves, i + 1, current_best, best_move)

negamax(args) ==
    IF Len(args) # NegamaxParams THEN Raises(TypeError)
    ELSE LET p == args[1]
             b == args[2]
             d == args[3]
             possible_moves == legal_moves(p, b)
         IN  IF d < 1 \/ Len(possible_moves) <= 0
             THEN Value(score(p, b))
             ELSE NegamaxLoop(p, b, d, possible_moves, 1, -inf, possible_moves[1])

----------------------------------------------------------------------------
(* The game loop *)

next_player(b, prev_player) ==
    IF ~any_legal_move(prev_player, b) /\ ~any_legal_move(opponent(prev_player), b)
    THEN None
    ELSE IF prev_player = PIECES[2] THEN PIECES[3]
    ELSE PIECES[2]

\* A strategy is any function (player, board, depth, time) -> move.  The model
\* plugs in two strategies, each free to return any value of its own range at
\* every call: the squares of a line of play, and values that are no legal move.
Strategies == {"A", "B"}

\* a line on which Black takes every White piece in nine moves, and one more square
LineA == {65, 46, 35, 66, 57, 64, 75, 56, 53, 63}

\* a line after which Black has no move while White has one
LineB == {65, 66, 43, 75, 85, 84, 77, 86}

\* an occupied square, an empty square without a bracket, border coordinates,
\* and integers that are no index of the grid or alias one from the end
NotSquares == {44, 11, 0, 9, 100, -65, -101}

Returns(s) == (IF s = "A" THEN LineA ELSE LineB) \cup NotSquares

Init ==
    /\ board = initial_board
    /\ player = BLACK
    /\ black_strategy \in Strategies
    /\ white_strategy \in Strategies
    /\ strategy = (IF player = WHITE THEN white_strategy ELSE black_strategy)
    /\ pc = "loop"
    /\ raised = {}
    /\ final = {}
    /\ asked = {}
    /\ moves = 0
    /\ lastMove = {}
    /\ lastPlayer = None
    /\ prevBoard = initial_board
    /\ depth = DEPTH
    /\ budget = {}
    /\ resH = {}
    /\ resP = {}
    /\ obsH = {}
    /\ obsP = {}
    /\ resR = {}
    /\ resN = {}

\* the loop test of play holds and get_move asks `strategy`, which returns v
Asks(v) ==
    /\ pc = "loop"
    /\ Len(legal_moves(player, board)) # 0
    /\ v \in Returns(strategy)
    /\ asked' = asked \cup {<<player, strategy>>}

\* one iteration of the loop: get_move accepts v, make_move commits it,
\* next_player picks the player; `strategy` is not assigned in the loop
Turn(v) ==
    /\ Asks(v)
    /\ ~is_legal_raises(v, player, board)
    /\ is_legal(v, player, board) /\ is_valid(v)
    /\ board' = make_move(v, player, board)
    /\ player' = next_player(board', player)
    /\ moves' = moves + 1
    /\ lastMove' = {v}
    /\ lastPlayer' = player
    /\ prevBoard' = board
    /\ UNCHANGED <<black_strategy, white_strategy, strategy, pc, raised, final>>
    /\ UNCHANGED searchVars

\* get_move rejects v: IllegalMoveError(player, move, board) leaves play
RaiseIllegalMove(v) ==
    /\ Asks(v)
    /\ ~is_legal_raises(v, player, board)
    /\ ~(is_legal(v, player, board) /\ is_valid(v))
    /\ pc' = "raised"
    /\ raised' = {[kind |-> "IllegalMoveError", player |-> player, move |-> v, board |-> board]}
    /\ UNCHANGED <<board, player, black_strategy, white_strategy, strategy, final>>
    /\ UNCHANGED histVars
    /\ UNCHANGED searchVars

\* is_legal(v, ...) subscripts the board out of range: IndexError leaves play
RaiseIndexError(v) ==
    /\ Asks(v)
    /\ is_legal_raises(v, player, board)
    /\ pc' = "raised"
    /\ raised' = {[kind |-> "IndexError", player |-> None, move |-> v, board |-> board]}
    /\ UNCHANGED <<board, player, black_strategy, white_strategy, strategy, final>>
    /\ UNCHANGED histVars
    /\ UNCHANGED searchVars

\* the loop test fails: the counts are printed
Report ==
    /\ pc = "loop"
    /\ Len(legal_moves(player, board)) = 0
    /\ pc' = "done"
    /\ final' = {[white |-> Count(board, WHITE), black |-> Count(board, BLACK)]}
    /\ UNCHANGED <<board, player, black_strategy, white_strategy, strategy, raised, asked>>
    /\ UNCHANGED histVars
    /\ UNCHANGED searchVars

Next ==
    \/ \E v \in Returns(strategy) : Turn(v)
    \/ \E v \in Returns(strategy) : RaiseIllegalMove(v)
    \/ \E v \in Returns(strategy) : RaiseIndexError(v)
    \/ Report

Spec == Init /\ [][Next]_vars

----------------------------------------------------------------------------
(* The strategies as functions: a harness that applies random_move,        *)
(* negamax, negamax_heuristics and negamax_pruning to boards of a line of   *)
(* play, for every depth budget up to MaxDepth and every clock up to        *)
(* MaxTicks.                                                                *)

MaxDepth == 2
MaxTicks == 1

Budgets == {{}} \cup {{n} : n \in 0..MaxTicks}

\* the squares the harness plays to reach its boards
SearchLine == {34, 35, 26, 25, 36}

InitSearch ==
    /\ board = initial_board
    /\ player = BLACK
    /\ black_strategy = "A"
    /\ white_strategy = "A"
    /\ strategy = "A"
    /\ pc = "search"
    /\ raised = {}
    /\ final = {}
    /\ asked = {}
    /\ moves = 0
    /\ lastMove = {}
    /\ lastPlayer = None
    /\ prevBoard = initial_board
    /\ depth \in 1..MaxDepth
    /\ budget \in Budgets
    /\ resH = {}
    /\ resP = {}
    /\ obsH = {}
    /\ obsP = {}
    /\ resR = {}
    /\ resN = {}

\* the position advances by a legal move, as an iteration of play advances it
SetUp(m) ==
    /\ pc = "search"
    /\ resH = {} /\ resP = {} /\ resR = {} /\ resN = {}
    /\ is_legal(m, player, board) /\ is_valid(m)
    /\ board' = make_move(m, player, board)
    /\ player' = next_player(board', player)
    /\ moves' = moves + 1
    /\ lastMove' = {m}
    /\ lastPlayer' = player
    /\ prevBoard' = board
    /\ UNCHANGED playVars
    /\ UNCHANGED searchVars

\* what a search record says of the node that was called
Observed(r) == [seen |-> r.seen, evals |-> r.evals, late |-> r.late, kept |-> r.kept]

\* negamax_heuristics(player, board, depth, start_time), called as get_move calls it;
\* the list it is given is the live board
CallHeuristics ==
    /\ pc = "search"
    /\ resH = {}
    /\ resR = {} /\ resN = {}
    /\ Len(legal_moves(player, board)) # 0
    /\ LET r == negamax_heuristics(player, board, depth, budget) IN
         /\ resH' = {r.ret}
         /\ obsH' = {Observed(r)}
         /\ board' = r.board
    /\ UNCHANGED <<player, depth, budget, resP, obsP, resR, resN>>
    /\ UNCHANGED playVars
    /\ UNCHANGED histVars

\* negamax_pruning(player, board, depth, start_time) with the default window
CallPruning ==
    /\ pc = "search"
    /\ resP = {}
    /\ resR = {} /\ resN = {}
    /\ Len(legal_moves(player, board)) # 0
    /\ LET r == negamax_pruning(player, board, depth, budget, -inf, inf) IN
         /\ resP' = {r.ret}
         /\ obsP' = {Observed(r)}
         /\ board' = r.board
    /\ UNCHANGED <<player, depth, budget, resH, obsH, resR, resN>>
    /\ UNCHANGED playVars
    /\ UNCHANGED histVars

\* random_move(player, board, depth, time): it reads the board and keeps it
CallRandom ==
    /\ pc = "search"
    /\ resR = {}
    /\ resH = {} /\ resP = {} /\ resN = {}
    /\ Len(legal_moves(player, board)) # 0
    /\ \E m \in random_move(player, board) : resR' = {m}
    /\ UNCHANGED <<board, player, depth, budget, resH, resP, obsH, obsP, resN>>
    /\ UNCHANGED playVars
    /\ UNCHANGED histVars

\* negamax(player, board, depth, time)
CallNegamax ==
    /\ pc = "search"
    /\ resN = {}
    /\ resH = {} /\ resP = {} /\ resR = {}
    /\ Len(legal_moves(player, board)) # 0
    /\ resN' = {negamax(<<player, board, depth, budget>>)}
    /\ UNCHANGED <<board, player, depth, budget, resH, resP, obsH, obsP, resR>>
    /\ UNCHANGED playVars
    /\ UNCHANGED histVars

NextSearch ==
    \/ \E m \in SearchLine : SetUp(m)
    \/ CallHeuristics
    \/ CallPruning
    \/ CallRandom
    \/ CallNegamax

SpecSearch == InitSearch /\ [][NextSearch]_vars

----------------------------------------------------------------------------
(* Claims about the searches *)

\* V(p, b, d) of claim C1: the depth-limited negamax value of a position
RECURSIVE V(_, _, _)
RECURSIVE MaxChild(_, _, _, _, _)
MaxChild(p, b, d, ms, i) ==
    LET v == -V(opponent(p), make_move(ms[i], p, b), d - 1) IN
    IF i = Len(ms) THEN v ELSE Max(v, MaxChild(p, b, d, ms, i + 1))

V(p, b, d) ==
    LET ms == legal_moves(p, b) IN
    IF d < 1 \/ Len(ms) = 0 THEN heuristic_score(p, b)
    ELSE MaxChild(p, b, d, ms, 1)

\* the first legal move, in enumeration order, whose negated child value is maximal
FirstBest(p, b, d) ==
    LET ms == legal_moves(p, b)
        val(i) == -V(opponent(p), make_move(ms[i], p, b), d - 1)
        i0 == CHOOSE i \in 1..Len(ms) :
                /\ \A j \in 1..Len(ms) : val(j) <= val(i)
                /\ \A j \in 1..(i - 1) : val(j) < val(i)
    IN ms[i0]

\* C1: with the time budget never exceeded, negamax_heuristics returns the first
\* legal move that maximises the negated negamax value of the position it leads to.
C1_ReturnsFirstBestMove ==
    (resH # {} /\ budget = {}) => resH = {FirstBest(player, board, depth)}

\* C2: with the time budget never exceeded, negamax_pruning with the default window
\* returns the move negamax_heuristics returns for the same position and depth.
C2_PruningKeepsTheMove ==
    (resH # {} /\ resP # {} /\ budget = {}) => resP = resH

----------------------------------------------------------------------------
(* Claims about play *)

Players == {BLACK, WHITE}

\* the board invariant: border cells hold OUTER, playable cells a piece or EMPTY
BoardInvariant(b) ==
    \A i \in 0..99 :
        IF i \in SquareSet THEN b[i] \in {EMPTY, BLACK, WHITE} ELSE b[i] = OUTER

\* a move was just committed by p, opponent(p) has no legal move and p has one
PassPending ==
    /\ pc = "loop"
    /\ lastMove # {}
    /\ lastPlayer \in Players
    /\ ~any_legal_move(opponent(lastPlayer), board)
    /\ any_legal_move(lastPlayer, board)

\* C3: when the opponent of the player who just moved has no legal move and the
\* mover has one, the mover is the next player to move, and the game never ends
\* on a board on which some player has a legal move.
C3_PassedPlayerIsSkipped ==
    /\ PassPending => player = lastPlayer
    /\ pc = "done" => \A p \in Players : ~any_legal_move(p, board)

\* neither Black nor White has a legal move
NoMoveLeft(b) == \A p \in Players : ~any_legal_move(p, b)

\* C4: from a board on which neither player has a legal move, the only step of
\* play is the report of that board's counts: no strategy is asked, and no cell
\* of the live board changes.
C4_TerminalBoardIsFinal ==
    [][(pc = "loop" /\ NoMoveLeft(board)) =>
          /\ asked' = asked
          /\ board' = board
          /\ pc' = "done"
          /\ final' = {[white |-> Count(board, WHITE), black |-> Count(board, BLACK)]}]_vars

\* C5: every move asked for while Black is to move is asked of black_strategy,
\* every move asked for while White is to move is asked of white_strategy.
C5_EachPlayerItsStrategy ==
    \A a \in asked :
        /\ a[1] = BLACK => a[2] = black_strategy
        /\ a[1] = WHITE => a[2] = white_strategy

\* C6: in every state of play the live board satisfies the board invariant.
C6_LiveBoardInvariant == BoardInvariant(board)

\* C7: whenever get_move rejects the value a strategy returned, what leaves play
\* is IllegalMoveError carrying the player, the move and the unchanged live board.
C7_OnlyIllegalMoveError ==
    \A r \in raised :
        /\ r.kind = "IllegalMoveError"
        /\ r.player = player
        /\ r.board = board

----------------------------------------------------------------------------
(* Claims about the board functions, on the boards play reaches *)

\* the cells strictly between m and the bracket find_bracket finds in a direction
RunCells(m, p, b, direction) ==
    LET r == find_bracket(m, p, b, direction) IN
    {x \in {m + k * direction : k \in 1..9} :
        \E e \in r : (e - x) * direction > 0}

RECURSIVE TotalRun(_, _, _, _)
TotalRun(m, p, b, i) ==
    IF i > Len(DIRECTIONS) THEN 0
    ELSE Cardinality(RunCells(m, p, b, DIRECTIONS[i])) + TotalRun(m, p, b, i + 1)

\* the board make_move holds after placing the piece and flipping the first i directions
RECURSIVE AfterDirections(_, _, _, _)
AfterDirections(m, p, b, i) ==
    IF i = 0 THEN SetIndex(b, m, p)
    ELSE make_flips(m, p, AfterDirections(m, p, b, i - 1), DIRECTIONS[i])

MoveFrame(m, p, b) ==
    LET nb == make_move(m, p, b)
        flipped == UNION {RunCells(m, p, b, DIRECTIONS[i]) : i \in 1..Len(DIRECTIONS)}
    IN /\ {i \in 0..99 : nb[i] # b[i]} = flipped \cup {m}
       /\ b[m] = EMPTY /\ nb[m] = p
       /\ \A x \in flipped : b[x] = opponent(p) /\ nb[x] = p
       /\ \A i \in 1..Len(DIRECTIONS) :
            find_bracket(m, p, AfterDirections(m, p, b, i - 1), DIRECTIONS[i])
               = find_bracket(m, p, b, DIRECTIONS[i])
       /\ score(p, nb) = score(p, b) + 1 + 2 * TotalRun(m, p, b, 1)

\* C8: on a board satisfying the board invariant, make_move of a legal move m for
\* player p changes exactly m (EMPTY to p) and the cells strictly between m and
\* each bracket find_bracket finds on the board before the move (opponent to p);
\* the flips of one direction leave the brackets of the others as they were, and
\* score(p) rises by 1 + 2 * (total length of the bracketed runs).
C8_MakeMoveFrame ==
    (pc = "loop" /\ BoardInvariant(board)) =>
        \A p \in Players : \A m \in SquareSet :
            is_legal(m, p, board) => MoveFrame(m, p, board)

\* a committed move that flipped runs in two directions, one of them of two cells
C8_Witness ==
    /\ pc = "loop"
    /\ lastMove # {}
    /\ lastPlayer \in Players
    /\ BoardInvariant(prevBoard)
    /\ \E m \in lastMove :
         /\ board = make_move(m, lastPlayer, prevBoard)
         /\ Cardinality({i \in 1..Len(DIRECTIONS) :
                RunCells(m, lastPlayer, prevBoard, DIRECTIONS[i]) # {}}) >= 2
         /\ \E i \in 1..Len(DIRECTIONS) :
                Cardinality(RunCells(m, lastPlayer, prevBoard, DIRECTIONS[i])) >= 2

\* s + d, ..., s + (n-1)d hold the opponent's pieces and s + nd holds p's
IsBracketAt(s, p, b, d, n) ==
    /\ s + n * d \in 0..99
    /\ b[s + n * d] = p
    /\ \A k \in 1..(n - 1) : b[s + k * d] = opponent(p)

\* C9: on a board satisfying the board invariant, for every playable square s,
\* player p and direction d, find_bracket returns e exactly when the cells from
\* s + d up to e - d are a run of at least one opponent piece and e holds p's
\* piece, returns no bracket otherwise, and reads no cell outside the grid.
C9_FindBracketCharacterised ==
    (pc = "loop" /\ BoardInvariant(board)) =>
        \A s \in SquareSet : \A p \in Players : \A i \in 1..Len(DIRECTIONS) :
            LET d == DIRECTIONS[i]
                r == find_bracket(s, p, board, d)
            IN /\ ScanReads(s, p, board, d) \subseteq 0..99
               /\ ~find_bracket_raises(s, p, board, d)
               /\ \A e \in r : \E n \in 2..9 : e = s + n * d /\ IsBracketAt(s, p, board, d, n)
               /\ r = {} => \A n \in 2..9 : ~IsBracketAt(s, p, board, d, n)
               /\ Cardinality(r) <= 1

\* a board on which one scan finds a bracket behind a run of two and another
\* follows an opponent run up to the border
C9_Witness ==
    /\ pc = "loop"
    /\ BoardInvariant(board)
    /\ \E s \in SquareSet : \E p \in Players : \E i \in 1..Len(DIRECTIONS) :
         find_bracket(s, p, board, DIRECTIONS[i]) = {s + 3 * DIRECTIONS[i]}
    /\ \E s \in SquareSet : \E p \in Players : \E i \in 1..Len(DIRECTIONS) :
         /\ board[s + DIRECTIONS[i]] = opponent(p)
         /\ board[ScanEnd(s, p, board, DIRECTIONS[i])] = OUTER
         /\ find_bracket(s, p, board, DIRECTIONS[i]) = {}

\* the White pieces of b that make_move(m, BLACK, b) turns Black
WhiteFlipped(m, b) == {i \in 0..99 : b[i] = WHITE /\ make_move(m, BLACK, b)[i] = BLACK}

\* C10 as stated: on initial_board() Black's legal moves are 35, 46, 53 and 64,
\* and each flips exactly one White piece.
C10_AsStated ==
    board = initial_board =>
        /\ legal_moves(BLACK, board) = <<35, 46, 53, 64>>
        /\ \A m \in {35, 46, 53, 64} : Cardinality(WhiteFlipped(m, board)) = 1

\* C10, amended: on initial_board() Black's legal moves are 34, 43, 56 and 65,
\* and each flips exactly one White piece.
C10_InitialMoves ==
    /\ board = initial_board =>
        /\ legal_moves(BLACK, board) = <<34, 43, 56, 65>>
        /\ \A m \in {34, 43, 56, 65} : Cardinality(WhiteFlipped(m, board)) = 1
    /\ (moves = 1 /\ prevBoard = initial_board) =>
        /\ lastMove \subseteq {34, 43, 56, 65}
        /\ Cardinality({i \in 0..99 : prevBoard[i] = WHITE /\ board[i] # WHITE}) = 1

\* Black's first move, 65, has been committed on the initial board
C10_Witness ==
    /\ pc = "loop"
    /\ moves = 1
    /\ prevBoard = initial_board
    /\ lastPlayer = BLACK
    /\ lastMove = {65}
    /\ board = make_move(65, BLACK, initial_board)

----------------------------------------------------------------------------
(* Claims about the strategies *)

\* the moves the harness has had returned by random_move, negamax_heuristics
\* and negamax_pruning for `player` on `board`
ReturnedMoves == resH \cup resP \cup resR

\* C11: called for Black or White on a board where that player has a legal move,
\* with a depth budget of at least 1, random_move, negamax_heuristics and
\* negamax_pruning return a member of legal_moves(player, board), whether the time
\* budget is never exceeded, exceeded on entry or exceeded during the search; the
\* test of get_move passes on it, so that IllegalMoveError is not raised.
C11_StrategiesReturnLegalMoves ==
    (player \in {BLACK, WHITE} /\ depth >= 1 /\ Len(legal_moves(player, board)) # 0) =>
        \A m \in ReturnedMoves :
            /\ m \in random_move(player, board)
            /\ ~is_legal_raises(m, player, board)
            /\ is_legal(m, player, board) /\ is_valid(m)

\* both searches have answered at depth 2 with a budget that the root finds unspent
\* and the nodes below it find spent
C11_Witness ==
    /\ pc = "search"
    /\ moves >= 1
    /\ player \in {BLACK, WHITE}
    /\ depth = 2
    /\ budget = {1}
    /\ resH # {} /\ resP # {}
    /\ resH \cup resP \subseteq random_move(player, board)

\* the negamax value of a position for the player to move in it, leaves scored
\* with score, the evaluating player alternating at every step
RECURSIVE ScoreV(_, _, _)
RECURSIVE ScoreMaxChild(_, _, _, _, _)
ScoreMaxChild(p, b, d, ms, i) ==
    LET v == -ScoreV(opponent(p), make_move(ms[i], p, b), d - 1) IN
    IF i = Len(ms) THEN v ELSE Max(v, ScoreMaxChild(p, b, d, ms, i + 1))

ScoreV(p, b, d) ==
    LET ms == legal_moves(p, b) IN
    IF d < 1 \/ Len(ms) = 0 THEN score(p, b)
    ELSE ScoreMaxChild(p, b, d, ms, 1)

\* the first legal move, in enumeration order, whose negated ScoreV is maximal
FirstBestByScore(p, b, d) ==
    LET ms == legal_moves(p, b)
        val(i) == -ScoreV(opponent(p), make_move(ms[i], p, b), d - 1)
        i0 == CHOOSE i \in 1..Len(ms) :
                /\ \A j \in 1..Len(ms) : val(j) <= val(i)
                /\ \A j \in 1..(i - 1) : val(j) < val(i)
    IN ms[i0]

\* C12: called with a depth budget of at least 1 for a player who has a legal move,
\* negamax completes without error and returns the first legal move, in enumeration
\* order, whose negated recursive value is maximal, children being evaluated for
\* the opponent of the player who moved and leaves being scored with score.
C12_NegamaxReturnsFirstBest ==
    (depth >= 1 /\ Len(legal_moves(player, board)) # 0) =>
        \A r \in resN :
            /\ r.raised = None
            /\ r.ret = {FirstBestByScore(player, board, depth)}

\* a strategy has returned in this step
StrategyReturns ==
    \/ resH' # resH
    \/ resP' # resP
    \/ resR' # resR
    \/ resN' # resN

\* the step is the commit of play: the board becomes make_move(move, player, board)
\* for a move that passes the test of get_move
CommitsValidatedMove ==
    \E move \in 0..99 :
        /\ is_legal(move, player, board) /\ is_valid(move)
        /\ lastMove' = {move}
        /\ board' = make_move(move, player, board)

\* C13: a call of random_move, negamax_heuristics or negamax_pruning, at any depth
\* and whatever the time cutoff does, returns with the board it was given unchanged
\* cell for cell; no recursive call changes a board of its caller or of a sibling
\* branch; the live board changes only by the make_move of a validated move.
C13_StrategiesKeepTheBoard ==
    [][/\ StrategyReturns => board' = board
       /\ \A o \in obsH' \cup obsP' : o.kept
       /\ board' # board => (~StrategyReturns /\ CommitsValidatedMove)]_vars

\* both searches have returned at depth 2, with recursive calls made below the
\* root, on a board that play's commit produced
C13_Witness ==
    /\ pc = "search"
    /\ depth = 2
    /\ budget = {}
    /\ moves = 2
    /\ resH # {} /\ resP # {}
    /\ \A o \in obsH \cup obsP : o.evals >= 2 /\ o.kept
    /\ \E move \in lastMove : board = make_move(move, lastPlayer, prevBoard)

----------------------------------------------------------------------------
(* Claims about the time cutoff *)

\* what the harness has observed of the root nodes of its searches
RootNodes == obsH \cup obsP

----------------------------------------------------------------------------
(* Claims about termination *)

\* the cells that are Empty in b and not in c
Filled(b, c) == {i \in 0..99 : b[i] = EMPTY /\ c[i] # EMPTY}

\* the playable squares of the board: initial_board() leaves 60 of them Empty
MaxMoves == Count(initial_board, EMPTY)

\* C15: an iteration of the loop of play either leaves the loop or commits a move
\* that turns exactly one Empty cell into a non-Empty one and turns no cell back
\* to Empty, so the number of Empty cells strictly decreases with every iteration,
\* at most 60 moves are committed, and the game ends once every strategy call
\* returns.
C15_EmptiesDecreaseUntilExit ==
    [][pc = "loop" =>
        \/ /\ pc' # "loop"
           /\ board' = board /\ moves' = moves
        \/ /\ pc' = "loop"
           /\ moves' = moves + 1
           /\ Cardinality(Filled(board, board')) = 1
           /\ Filled(board', board) = {}
           /\ Count(board', EMPTY) < Count(board, EMPTY)
           /\ Count(board', EMPTY) + moves' = MaxMoves
           /\ MaxMoves = 60 /\ moves' <= MaxMoves]_vars

\* play has left its loop through the loop condition after committed moves
C15_Witness ==
    /\ pc = "done"
    /\ final # {}
    /\ moves >= 2
    /\ Count(board, EMPTY) = MaxMoves - moves
    /\ Cardinality(Filled(prevBoard, board)) = 1

====
